---- MODULE Spec2Model ----
(***************************************************************************)
(* Model of the tuition agent worker (src/agent/agent.js) and of the chat  *)
(* client that feeds it (src/unnamed/part_000).                            *)
(*                                                                         *)
(* The worker subscribes to the 'chats' collection; every 'added' change   *)
(* of an unprocessed user entry starts an asynchronous handling task.  A  *)
(* task is suspended at every await; one action of the model is the code   *)
(* that runs from the resumption of one await to the next one.             *)
(*                                                                         *)
(* An optional JavaScript value (a field that may be undefined) is a       *)
(* sequence of length 0 (undefined) or 1 (the value).                      *)
(***************************************************************************)
EXTENDS Integers, Sequences, FiniteSets, TLC

VARIABLES
    proc,        \* position of the worker's start-up code
    credential,  \* process.env.FIREBASE_SERVICE_ACCOUNT is set
    log,         \* the 'chats' collection: the entry with id d is log[d]
    notifs,      \* change notifications not yet delivered to the listener, in order
    dups,        \* the entries whose 'added' notification was delivered once more
    tasks        \* the handling tasks (async callbacks), one per passed filter

vars == <<proc, credential, log, notifs, dups, tasks>>

---------------------------------------------------------------------------
(* Bounds of the model *)

MaxUserDocs == 2

MaxDups == 1

\* handling tasks started in a run of Spec
MaxTasks == 2

\* handling tasks started in a run of SpecRich
MaxRichTasks == 1

---------------------------------------------------------------------------
(* Optional values and JavaScript truthiness *)

Undefined == <<>>

Some(v) == <<v>>

\* truthiness of an optional string: undefined and "" are falsy
TruthyText(o) == o # <<>> /\ o[1] # ""

\* truthiness of an optional boolean: undefined and false are falsy
TruthyFlag(o) == o # <<>> /\ o[1] = TRUE

---------------------------------------------------------------------------
(* Values the collaborators can produce *)

\* texts the user can type into the client's input box
UserTexts == {"balance?", "pay 50", " "}

NoArgs == [student_id |-> Undefined, amount |-> Undefined]

\* a part of a model response or of a request turn
TextPart(s) == [text |-> Some(s), functionCall |-> Undefined, functionResponse |-> Undefined]

CallPart(name, args) ==
    [text |-> Undefined, functionCall |-> Some([name |-> name, args |-> args]),
     functionResponse |-> Undefined]

WithParts(ps) == [candidates |-> Some(<<[content |-> Some([parts |-> Some(ps)])]>>)]

NoCandidates == [candidates |-> Undefined]

EmptyCandidates == [candidates |-> Some(<<>>)]

NoContent == [candidates |-> Some(<<[content |-> Undefined]>>)]

NoParts == [candidates |-> Some(<<[content |-> Some([parts |-> Undefined])]>>)]

CheckS1 == CallPart("check_tuition", Some([NoArgs EXCEPT !.student_id = Some("S1")]))

CheckNoId == CallPart("check_tuition", Some(NoArgs))

PayS1 == CallPart("pay_tuition", Some([student_id |-> Some("S1"), amount |-> Some(50)]))

PayNoArgs == CallPart("pay_tuition", Undefined)

RefundS1 == CallPart("refund_tuition", Some([NoArgs EXCEPT !.student_id = Some("S1")]))

\* responses the model service can give to the first request
FirstResponses ==
    { NoCandidates, EmptyCandidates, NoContent, NoParts,
      WithParts(<<>>),
      WithParts(<<TextPart("Hi"), TextPart(" there")>>),
      WithParts(<<TextPart("")>>),
      WithParts(<<CheckS1>>),
      WithParts(<<CheckNoId>>),
      WithParts(<<TextPart("ok"), PayS1, CheckS1>>),
      WithParts(<<RefundS1, PayNoArgs>>) }

\* responses the model service can give to the second request
SecondResponses ==
    { WithParts(<<TextPart("You owe 100")>>),
      WithParts(<<TextPart("")>>),
      WithParts(<<PayS1>>) }

\* the answers used where several handling tasks run concurrently
CoreFirstResponses == { WithParts(<<TextPart("Hi")>>), WithParts(<<PayS1>>) }

CoreSecondResponses == { WithParts(<<TextPart("Paid 50")>>) }

CoreOutcomes == { [ok |-> TRUE, body |-> "paid"] }

\* outcomes of a request to the tuition backend
BackendOutcomes ==
    { [ok |-> TRUE, body |-> "balance 100"],
      [ok |-> FALSE, body |-> "Network Error"] }

---------------------------------------------------------------------------
(* The start-up code of the worker *)

Init ==
    /\ proc = "boot"
    /\ credential \in BOOLEAN
    /\ log = <<>>
    /\ notifs = <<>>
    /\ dups = <<>>
    /\ tasks = <<>>

\* a start-up that goes on without the credential
CheckCredentialNoExit ==
    /\ proc = "boot"
    /\ proc' = "initialized"
    /\ UNCHANGED <<credential, log, notifs, dups, tasks>>

\* agent.js 18-29: exit when the service-account credential is absent
CheckCredential ==
    /\ proc = "boot"
    /\ proc' = IF credential THEN "initialized" ELSE "exited"
    /\ UNCHANGED <<credential, log, notifs, dups, tasks>>

\* agent.js 209-216: the health route is registered and the server listens
Listen ==
    /\ proc = "initialized"
    /\ proc' = "listening"
    /\ UNCHANGED <<credential, log, notifs, dups, tasks>>

\* agent.js 101-107, 216-219: the listen callback subscribes to 'chats'; the
\* first snapshot reports every existing entry as 'added'
setupFirestoreListener ==
    /\ proc = "listening"
    /\ proc' = "subscribed"
    /\ notifs' = [d \in DOMAIN log |-> [type |-> "added", doc |-> d]]
    /\ UNCHANGED <<credential, log, dups, tasks>>

---------------------------------------------------------------------------
(* The chat client *)

\* part_000 57: String.prototype.trim on the texts the user can type
Trim(s) == IF s = " " THEN "" ELSE s

UserEntry(text, at) ==
    [text |-> text, role |-> "user", createdAt |-> at,
     processed |-> Some(FALSE), relatedToMessageId |-> Undefined]

NumUserDocs == Cardinality({d \in DOMAIN log : log[d].role = "user"})

\* the listener is told of a change only while it is subscribed
Notify(type, d) == IF proc = "subscribed" THEN <<[type |-> type, doc |-> d]>> ELSE <<>>

\* part_000 55-74: the user submits the input box
handleSendMessage(text) ==
    /\ NumUserDocs < MaxUserDocs
    /\ IF Trim(text) = ""
       THEN UNCHANGED <<log, notifs>>
       ELSE /\ log' = Append(log, UserEntry(text, Len(log) + 1))
            /\ notifs' = notifs \o Notify("added", Len(log) + 1)
    /\ UNCHANGED <<proc, credential, dups, tasks>>

---------------------------------------------------------------------------
(* The listener callback: filter and flag write *)

\* a filter that forgets the processed flag
PassesFilterAnyFlag(type, messageData) ==
    /\ type = "added"
    /\ messageData.role = "user"

\* a filter that forgets the author of the entry
PassesFilterAnyRole(type, messageData) ==
    /\ type = "added"
    /\ ~TruthyFlag(messageData.processed)

\* agent.js 109-114: only 'added' changes of unprocessed user entries pass
PassesFilter(type, messageData) ==
    /\ type = "added"
    /\ messageData.role = "user"
    /\ ~TruthyFlag(messageData.processed)

\* agent.js 110-118: the task's locals at its first await (the flag write)
NewTask(d, messageData) ==
    [doc |-> d, text |-> messageData.text, pc |-> "awaitUpdate",
     flagWritten |-> FALSE, flipped |-> FALSE,
     \* overlap: some earlier task of the same entry had not completed its flag
     \* write when this task's filter check ran; flipped: this task's flag write
     \* found the flag false; answers: the backend's answer to each executed
     \* call, undefined for a call that made no request
     overlap |-> \E u \in DOMAIN tasks : tasks[u].doc = d /\ ~tasks[u].flagWritten,
     calls |-> <<>>, firstResponse |-> Undefined, secondResponse |-> Undefined,
     functionCalls |-> <<>>, execs |-> <<>>, requests |-> <<>>,
     toolOutputs |-> <<>>, answers |-> <<>>, finalResponseText |-> Undefined,
     err |-> FALSE, replyDoc |-> Undefined, apologyDoc |-> Undefined]

\* agent.js 108-118: one change of a snapshot reaches the callback; a run
\* starts at most `limit` handling tasks
onChange(type, d, limit) ==
    IF PassesFilter(type, log[d])
    THEN /\ Len(tasks) < limit
         /\ tasks' = Append(tasks, NewTask(d, log[d]))
    ELSE tasks' = tasks

\* agent.js 107-108: the oldest pending notification is delivered
Deliver(limit) ==
    /\ proc = "subscribed"
    /\ notifs # <<>>
    /\ notifs' = Tail(notifs)
    /\ onChange(Head(notifs).type, Head(notifs).doc, limit)
    /\ UNCHANGED <<proc, credential, log, dups>>

\* agent.js 107-108: the subscription reports an entry as 'added' once more
DeliverAgain(d, limit) ==
    /\ proc = "subscribed"
    /\ d \in DOMAIN log
    /\ \A i \in DOMAIN notifs : notifs[i] # [type |-> "added", doc |-> d]
    /\ Len(dups) < MaxDups
    /\ dups' = Append(dups, d)
    /\ onChange("added", d, limit)
    /\ UNCHANGED <<proc, credential, log, notifs>>

---------------------------------------------------------------------------
(* The tool catalog and the requests to the model *)

\* agent.js 37-69: the two tool descriptors
checkTuitionTool == [name |-> "check_tuition", required |-> {"student_id"}]

payTuitionTool == [name |-> "pay_tuition", required |-> {"student_id", "amount"}]

\* a first request without the tool catalog
FirstCallNoTools(text) ==
    [contents |-> <<[role |-> "user", parts |-> <<TextPart(text)>>]>>,
     systemInstruction |-> TRUE,
     tools |-> Undefined]

\* agent.js 131-138: the first generateContent request
FirstCall(text) ==
    [contents |-> <<[role |-> "user", parts |-> <<TextPart(text)>>]>>,
     systemInstruction |-> TRUE,
     tools |-> Some({checkTuitionTool, payTuitionTool})]

\* agent.js 165-173: the second generateContent request; its config holds the
\* system instruction only
SecondCall(text, parts, toolOutputs) ==
    [contents |-> <<[role |-> "user", parts |-> <<TextPart(text)>>],
                    [role |-> "model", parts |-> parts],
                    [role |-> "function", parts |-> toolOutputs]>>,
     systemInstruction |-> TRUE,
     tools |-> Undefined]

---------------------------------------------------------------------------
(* Inspection of a model response *)

\* the condition written with optional chaining: candidates?.[0]?.content?.parts
InspectChained(resp) ==
    IF resp.candidates = Undefined THEN "skip"
    ELSE IF resp.candidates[1] = <<>> THEN "skip"
    ELSE IF resp.candidates[1][1].content = Undefined THEN "skip"
    ELSE IF resp.candidates[1][1].content[1].parts = Undefined THEN "skip"
    ELSE "parts"

\* agent.js 144-145: candidates && candidates[0].content && candidates[0].content.parts
\* "skip" when the condition is falsy, "throw" when candidates[0] is undefined
\* (reading .content of it is a TypeError), "parts" when it is truthy
Inspect(resp) ==
    IF resp.candidates = Undefined THEN "skip"
    ELSE IF resp.candidates[1] = <<>> THEN "throw"
    ELSE IF resp.candidates[1][1].content = Undefined THEN "skip"
    ELSE IF resp.candidates[1][1].content[1].parts = Undefined THEN "skip"
    ELSE "parts"

\* agent.js 146: candidates[0].content.parts
PartsOf(resp) == resp.candidates[1][1].content[1].parts[1]

\* agent.js 149: parts.filter(part => part.functionCall).map(part => part.functionCall)
FunctionCalls(parts) ==
    LET F[i \in 0..Len(parts)] ==
            IF i = 0 THEN <<>>
            ELSE IF parts[i].functionCall # Undefined
                 THEN Append(F[i - 1], parts[i].functionCall[1])
                 ELSE F[i - 1]
    IN F[Len(parts)]

\* agent.js 175, 178: the response's text getter: the concatenation of the text
\* parts of the first candidate, undefined when there is no text part
ResponseText(resp) ==
    LET ps == IF /\ resp.candidates # Undefined
                 /\ resp.candidates[1] # <<>>
                 /\ resp.candidates[1][1].content # Undefined
                 /\ resp.candidates[1][1].content[1].parts # Undefined
              THEN PartsOf(resp) ELSE <<>>
        T[i \in 0..Len(ps)] ==
            IF i = 0 THEN Undefined
            ELSE IF ps[i].text = Undefined THEN T[i - 1]
                 ELSE IF T[i - 1] = Undefined THEN ps[i].text
                      ELSE Some(T[i - 1][1] \o ps[i].text[1])
    IN T[Len(ps)]

---------------------------------------------------------------------------
(* The tool executor *)

\* agent.js 90
UnknownTool == [data |-> Undefined, error |-> Some("Unknown tool")]

\* agent.js 93-95: a failure becomes an error payload
ApiCallFailed(message) ==
    [data |-> Undefined, error |-> Some("API Call Failed: " \o message)]

\* agent.js 82: a template literal prints an undefined value as "undefined"
Interpolate(o) == IF o = Undefined THEN "undefined" ELSE o[1]

\* an executor whose last branch is the payment, not the unknown-tool error
executeToolNoDefault(name, args) ==
    IF args = Undefined
    THEN [request |-> Undefined,
          result |-> Some(ApiCallFailed("Cannot read properties of undefined"))]
    ELSE IF name = "check_tuition"
    THEN [request |-> Some([method |-> "GET",
                            url |-> "/tuition/" \o Interpolate(args[1].student_id),
                            body |-> Undefined]),
          result |-> Undefined]
    ELSE [request |-> Some([method |-> "POST", url |-> "/tuition/pay",
                            body |-> Some([student_id |-> args[1].student_id,
                                           amount |-> args[1].amount])]),
          result |-> Undefined]

\* agent.js 76-91: what executeTool does up to its await: a request to the
\* backend, a result returned at once, or a TypeError thrown inside its try
\* (args is undefined) and turned into an error payload by its catch
executeTool(name, args) ==
    IF name = "check_tuition"
    THEN IF args = Undefined
         THEN [request |-> Undefined,
               result |-> Some(ApiCallFailed("Cannot read properties of undefined"))]
         ELSE [request |-> Some([method |-> "GET",
                                 url |-> "/tuition/" \o Interpolate(args[1].student_id),
                                 body |-> Undefined]),
               result |-> Undefined]
    ELSE IF name = "pay_tuition"
    THEN IF args = Undefined
         THEN [request |-> Undefined,
               result |-> Some(ApiCallFailed("Cannot read properties of undefined"))]
         ELSE [request |-> Some([method |-> "POST", url |-> "/tuition/pay",
                                 body |-> Some([student_id |-> args[1].student_id,
                                                amount |-> args[1].amount])]),
               result |-> Undefined]
    ELSE [request |-> Undefined, result |-> Some(UnknownTool)]

\* a result that passes the body of a failed request on as data
executeToolResultAsData(outcome) == [data |-> Some(outcome.body), error |-> Undefined]

\* agent.js 92-96: the result of executeTool once the backend has answered:
\* the response body verbatim, or the error payload (axios rejects on a
\* network error, a timeout and a non-2xx status)
executeToolResult(outcome) ==
    IF outcome.ok
    THEN [data |-> Some(outcome.body), error |-> Undefined]
    ELSE ApiCallFailed(outcome.body)

\* a tool result entry that is not tagged with the name of its call
ToolOutputUntagged(name, result) ==
    [text |-> Undefined, functionCall |-> Undefined,
     functionResponse |-> Some([name |-> "tool", response |-> [result |-> result]])]

\* agent.js 156-161: the tool result entry pushed for a call
ToolOutput(name, result) ==
    [text |-> Undefined, functionCall |-> Undefined,
     functionResponse |-> Some([name |-> name, response |-> [result |-> result]])]

---------------------------------------------------------------------------
(* The handling task, from one await to the next *)

\* a flag write that is lost
MarkProcessedLost(l, d) == l

\* a flag write that replaces the entry instead of updating one field
MarkProcessedOverwrite(l, d) ==
    [l EXCEPT ![d] = [@ EXCEPT !.processed = Some(TRUE), !.text = ""]]

\* agent.js 118: the update sets the processed field of the entry
MarkProcessed(l, d) == [l EXCEPT ![d].processed = Some(TRUE)]

\* a reply without its back-reference
ReplyEntryNoRef(text, docId, at) ==
    [text |-> text, role |-> "model", createdAt |-> at,
     processed |-> Undefined, relatedToMessageId |-> Undefined]

\* a reply that refers to the entry of the handling started last, as if docId
\* were shared by the handlings
ReplyEntryShared(text, docId, at) ==
    [text |-> text, role |-> "model", createdAt |-> at,
     processed |-> Undefined, relatedToMessageId |-> Some(tasks[Len(tasks)].doc)]

\* agent.js 184-189
ReplyEntry(text, docId, at) ==
    [text |-> text, role |-> "model", createdAt |-> at,
     processed |-> Undefined, relatedToMessageId |-> Some(docId)]

ApologyText == "I'm sorry, I encountered an error processing your request."

\* agent.js 195-199
ApologyEntry(at) ==
    [text |-> ApologyText, role |-> "model", createdAt |-> at,
     processed |-> Undefined, relatedToMessageId |-> Undefined]

\* a catch block that only logs the error
CatchLogOnly(tk) == [tk EXCEPT !.err = TRUE, !.pc = "done"]

\* agent.js 193-195: the catch block issues the append of the apology
Catch(tk) == [tk EXCEPT !.err = TRUE, !.pc = "awaitApology"]

\* agent.js 183-191: the reply is appended only when its text is truthy
WriteResponse(tk) ==
    IF TruthyText(tk.finalResponseText)
    THEN [tk EXCEPT !.pc = "awaitAdd"]
    ELSE [tk EXCEPT !.pc = "done"]

\* agent.js 154-173, 74-91: the loop over the function calls up to the task's
\* next await: calls that executeTool answers at once are pushed one after the
\* other; the first call that needs the backend issues its request; past the
\* last call the second request is issued
RECURSIVE RunTools(_)
RunTools(tk) ==
    IF Len(tk.toolOutputs) = Len(tk.functionCalls)
    THEN [tk EXCEPT !.pc = "awaitCall2",
                    !.calls = Append(@, SecondCall(tk.text, PartsOf(tk.firstResponse[1]),
                                                   tk.toolOutputs))]
    ELSE LET call == tk.functionCalls[Len(tk.toolOutputs) + 1]
             r    == executeTool(call.name, call.args)
             ran  == [tk EXCEPT !.execs = Append(@, call)]
         IN  IF r.request # Undefined
             THEN [ran EXCEPT !.requests = Append(@, r.request[1]),
                              !.pc = "awaitBackend"]
             ELSE RunTools([ran EXCEPT !.toolOutputs =
                                Append(@, ToolOutput(call.name, r.result[1])),
                                       !.answers = Append(@, Undefined)])

\* agent.js 142-180: what the task does with the first response, up to its
\* next await
AfterFirstResponse(tk, resp) ==
    LET got == [tk EXCEPT !.firstResponse = Some(resp),
                          !.finalResponseText = Some("")]
    IN  IF Inspect(resp) = "throw" THEN Catch(got)
        ELSE IF Inspect(resp) = "skip" THEN WriteResponse(got)
        ELSE LET calls == FunctionCalls(PartsOf(resp))
             IN  IF Len(calls) > 0
                 THEN RunTools([got EXCEPT !.functionCalls = calls])
                 ELSE WriteResponse([got EXCEPT !.finalResponseText = ResponseText(resp)])

\* agent.js 118-131: the flag write completes and the first request is issued
UpdateResolve(t) ==
    /\ t \in DOMAIN tasks /\ tasks[t].pc = "awaitUpdate"
    /\ log' = MarkProcessed(log, tasks[t].doc)
    /\ notifs' = notifs \o Notify("modified", tasks[t].doc)
    /\ tasks' = [tasks EXCEPT ![t] = [@ EXCEPT !.flagWritten = TRUE,
                                               !.flipped = ~TruthyFlag(log[tasks[t].doc].processed),
                                               !.calls = <<FirstCall(tasks[t].text)>>,
                                               !.pc = "awaitCall1"]]
    /\ UNCHANGED <<proc, credential, dups>>

\* agent.js 118: the flag write fails, outside the try: the task ends with an
\* unhandled rejection
UpdateReject(t) ==
    /\ t \in DOMAIN tasks /\ tasks[t].pc = "awaitUpdate"
    /\ tasks' = [tasks EXCEPT ![t].pc = "rejected"]
    /\ UNCHANGED <<proc, credential, log, notifs, dups>>

\* agent.js 131-180: the first response arrives
Call1Resolve(t, resp) ==
    /\ t \in DOMAIN tasks /\ tasks[t].pc = "awaitCall1"
    /\ tasks' = [tasks EXCEPT ![t] = AfterFirstResponse(@, resp)]
    /\ UNCHANGED <<proc, credential, log, notifs, dups>>

\* agent.js 131, 193: the first request fails
Call1Reject(t) ==
    /\ t \in DOMAIN tasks /\ tasks[t].pc = "awaitCall1"
    /\ tasks' = [tasks EXCEPT ![t] = Catch(@)]
    /\ UNCHANGED <<proc, credential, log, notifs, dups>>

\* agent.js 82-96, 155-162: the backend answers or the request fails
BackendSettle(t, outcome) ==
    /\ t \in DOMAIN tasks /\ tasks[t].pc = "awaitBackend"
    /\ LET tk   == tasks[t]
           call == tk.functionCalls[Len(tk.toolOutputs) + 1]
       IN  tasks' = [tasks EXCEPT ![t] =
               RunTools([tk EXCEPT !.toolOutputs =
                   Append(@, ToolOutput(call.name, executeToolResult(outcome))),
                                   !.answers = Append(@, Some(outcome))])]
    /\ UNCHANGED <<proc, credential, log, notifs, dups>>

\* a handler that goes round the tool loop again for the calls of the second
\* response
Call2ResolveLoop(t, resp) ==
    /\ t \in DOMAIN tasks /\ tasks[t].pc = "awaitCall2"
    /\ LET got  == [tasks[t] EXCEPT !.secondResponse = Some(resp),
                                    !.finalResponseText = ResponseText(resp)]
           more == FunctionCalls(PartsOf(resp))
       IN  tasks' = [tasks EXCEPT ![t] =
               IF Len(more) > 0 /\ Len(got.calls) < 3
               THEN RunTools([got EXCEPT !.functionCalls = @ \o more])
               ELSE WriteResponse(got)]
    /\ UNCHANGED <<proc, credential, log, notifs, dups>>

\* agent.js 165-191: the second response arrives
Call2Resolve(t, resp) ==
    /\ t \in DOMAIN tasks /\ tasks[t].pc = "awaitCall2"
    /\ tasks' = [tasks EXCEPT ![t] =
           WriteResponse([@ EXCEPT !.secondResponse = Some(resp),
                                   !.finalResponseText = ResponseText(resp)])]
    /\ UNCHANGED <<proc, credential, log, notifs, dups>>

\* agent.js 165, 193: the second request fails
Call2Reject(t) ==
    /\ t \in DOMAIN tasks /\ tasks[t].pc = "awaitCall2"
    /\ tasks' = [tasks EXCEPT ![t] = Catch(@)]
    /\ UNCHANGED <<proc, credential, log, notifs, dups>>

\* agent.js 184-190: the append of the reply completes
AddResolve(t) ==
    /\ t \in DOMAIN tasks /\ tasks[t].pc = "awaitAdd"
    /\ log' = Append(log, ReplyEntry(tasks[t].finalResponseText[1], tasks[t].doc,
                                     Len(log) + 1))
    /\ notifs' = notifs \o Notify("added", Len(log) + 1)
    /\ tasks' = [tasks EXCEPT ![t] = [@ EXCEPT !.replyDoc = Some(Len(log) + 1),
                                               !.pc = "done"]]
    /\ UNCHANGED <<proc, credential, dups>>

\* agent.js 184, 193: the append of the reply fails
AddReject(t) ==
    /\ t \in DOMAIN tasks /\ tasks[t].pc = "awaitAdd"
    /\ tasks' = [tasks EXCEPT ![t] = Catch(@)]
    /\ UNCHANGED <<proc, credential, log, notifs, dups>>

\* agent.js 195-199: the append of the apology completes
ApologyResolve(t) ==
    /\ t \in DOMAIN tasks /\ tasks[t].pc = "awaitApology"
    /\ log' = Append(log, ApologyEntry(Len(log) + 1))
    /\ notifs' = notifs \o Notify("added", Len(log) + 1)
    /\ tasks' = [tasks EXCEPT ![t] = [@ EXCEPT !.apologyDoc = Some(Len(log) + 1),
                                               !.pc = "done"]]
    /\ UNCHANGED <<proc, credential, dups>>

\* agent.js 195: the append of the apology fails inside the catch block: the
\* task ends with an unhandled rejection
ApologyReject(t) ==
    /\ t \in DOMAIN tasks /\ tasks[t].pc = "awaitApology"
    /\ tasks' = [tasks EXCEPT ![t].pc = "rejected"]
    /\ UNCHANGED <<proc, credential, log, notifs, dups>>

---------------------------------------------------------------------------
(* The specification *)

Step(limit, firsts, seconds, outcomes) ==
    \/ CheckCredential
    \/ Listen
    \/ setupFirestoreListener
    \/ \E text \in UserTexts : handleSendMessage(text)
    \/ Deliver(limit)
    \/ \E d \in DOMAIN log : DeliverAgain(d, limit)
    \/ \E t \in DOMAIN tasks : UpdateResolve(t)
    \/ \E t \in DOMAIN tasks : UpdateReject(t)
    \/ \E t \in DOMAIN tasks, resp \in firsts : Call1Resolve(t, resp)
    \/ \E t \in DOMAIN tasks : Call1Reject(t)
    \/ \E t \in DOMAIN tasks, outcome \in outcomes : BackendSettle(t, outcome)
    \/ \E t \in DOMAIN tasks, resp \in seconds : Call2Resolve(t, resp)
    \/ \E t \in DOMAIN tasks : Call2Reject(t)
    \/ \E t \in DOMAIN tasks : AddResolve(t)
    \/ \E t \in DOMAIN tasks : AddReject(t)
    \/ \E t \in DOMAIN tasks : ApologyResolve(t)
    \/ \E t \in DOMAIN tasks : ApologyReject(t)

\* concurrent handling tasks, the collaborators answering from the core sets
Next == Step(MaxTasks, CoreFirstResponses, CoreSecondResponses, CoreOutcomes)

Spec == Init /\ [][Next]_vars

\* the handling of an entry, the collaborators answering from the full sets
NextRich == Step(MaxRichTasks, FirstResponses, SecondResponses, BackendOutcomes)

SpecRich == Init /\ [][NextRich]_vars

---------------------------------------------------------------------------
(* Properties *)

TasksOf(E) == {t \in DOMAIN tasks : tasks[t].doc = E}

UserDocs == {d \in DOMAIN log : log[d].role = "user"}

\* the model entries that refer to entry E
RepliesTo(E) ==
    {d \in DOMAIN log : log[d].role = "model" /\ log[d].relatedToMessageId = Some(E)}

\* every filter check for E ran after the flag writes of all earlier handlings
\* of E had completed
Serialized(E) == \A t \in TasksOf(E) : ~tasks[t].overlap

Finished(t) == tasks[t].pc \in {"done", "rejected"}

\* C1: when every filter check for a user entry E runs after the flag write of
\* the earlier handling of E has completed (also when E's 'added' notification
\* is delivered twice), the model is called for E by at most one task, the
\* processed flag of E goes from false to true exactly once, and at most one
\* model entry refers to E.
C1_Idempotent ==
    \A E \in UserDocs :
        Serialized(E) =>
            /\ Cardinality({t \in TasksOf(E) : Len(tasks[t].calls) > 0}) <= 1
            /\ Cardinality({t \in TasksOf(E) : tasks[t].flipped}) <= 1
            /\ (\E t \in TasksOf(E) : tasks[t].flagWritten) =>
                   /\ Cardinality({t \in TasksOf(E) : tasks[t].flipped}) = 1
                   /\ log[E].processed = Some(TRUE)
            /\ Cardinality(RepliesTo(E)) <= 1

\* an entry was reported as 'added' twice, the second time after its flag write,
\* and its single handling has appended the reply
C1_Witness ==
    \E E \in UserDocs :
        /\ \E i \in DOMAIN dups : dups[i] = E
        /\ Serialized(E)
        /\ Cardinality(TasksOf(E)) = 1
        /\ \E t \in TasksOf(E) : tasks[t].replyDoc # Undefined

\* C2: in every interleaving at most one task passes the filter for a user
\* entry and calls the model for it.
C2_SingleHandler ==
    \A E \in UserDocs : Cardinality({t \in TasksOf(E) : Len(tasks[t].calls) > 0}) <= 1

\* C3: a model request has been issued for an entry only if the entry's
\* processed flag is true in the log.
C3_FlagBeforeModelCall ==
    \A t \in DOMAIN tasks :
        Len(tasks[t].calls) > 0 => log[tasks[t].doc].processed = Some(TRUE)

\* the first model request of a task is in flight
C3_Witness ==
    \E t \in DOMAIN tasks : tasks[t].pc = "awaitCall1" /\ Len(tasks[t].calls) = 1

\* the first response of task t, once it has arrived
FirstOf(t) == tasks[t].firstResponse[1]

\* the first response of task t has parts, no function call and a text
NoToolPath(t) ==
    /\ tasks[t].firstResponse # Undefined
    /\ Inspect(FirstOf(t)) = "parts"
    /\ FunctionCalls(PartsOf(FirstOf(t))) = <<>>
    /\ ResponseText(FirstOf(t)) # Undefined

\* C4 as stated: a handling whose first response has no function call and text
\* T ends with a model entry of text T that refers to the entry, without tool
\* execution and without a second model request.
C4_NoToolReplyAlways ==
    \A t \in DOMAIN tasks :
        NoToolPath(t) /\ Finished(t) =>
            /\ tasks[t].replyDoc # Undefined
            /\ log[tasks[t].replyDoc[1]].text = ResponseText(FirstOf(t))[1]
            /\ log[tasks[t].replyDoc[1]].relatedToMessageId = Some(tasks[t].doc)
            /\ tasks[t].execs = <<>>
            /\ Len(tasks[t].calls) = 1

\* C4 amended: when the first response has no function call and text T, no tool
\* is executed and no second model request is made; if T is empty nothing is
\* appended; if T is not empty the append of a model entry with text T and
\* relatedToMessageId = E.id is issued, and the entry is in the log once that
\* append has completed (when it fails the catch block runs instead).
C4_NoToolReply ==
    \A t \in DOMAIN tasks :
        NoToolPath(t) =>
            LET tk == tasks[t]
                T  == ResponseText(FirstOf(t))[1]
            IN  /\ tk.execs = <<>> /\ tk.requests = <<>>
                /\ Len(tk.calls) = 1 /\ tk.secondResponse = Undefined
                /\ (FirstOf(t) = WithParts(<<TextPart("Hi"), TextPart(" there")>>)
                        => T = "Hi there")
                /\ T = "" =>
                       /\ tk.pc = "done" /\ ~tk.err
                       /\ tk.replyDoc = Undefined /\ tk.apologyDoc = Undefined
                /\ T # "" =>
                       /\ tk.finalResponseText = Some(T)
                       /\ tk.pc = "awaitAdd" \/ tk.replyDoc # Undefined \/ tk.err
                       /\ tk.replyDoc # Undefined =>
                              /\ tk.pc = "done" /\ ~tk.err
                              /\ log[tk.replyDoc[1]].text = T
                              /\ log[tk.replyDoc[1]].role = "model"
                              /\ log[tk.replyDoc[1]].relatedToMessageId = Some(tk.doc)

\* a handling without tool calls has appended its reply "Hi there"
C4_Witness ==
    \E t \in DOMAIN tasks :
        /\ NoToolPath(t)
        /\ tasks[t].replyDoc # Undefined
        /\ log[tasks[t].replyDoc[1]].text = "Hi there"

\* C5: when the first response holds function calls, executeTool is invoked
\* once per call, in their order and with their arguments; one tool result
\* tagged with the call's name is collected per call; the second request's
\* history is the user text, the parts of the first response and the tool
\* results; and an appended reply has the text of the second response.
C5_ToolRoundTrip ==
    \A t \in DOMAIN tasks :
        LET tk == tasks[t] IN
        Len(tk.functionCalls) > 0 =>
            /\ Len(tk.execs) <= Len(tk.functionCalls)
            /\ \A i \in DOMAIN tk.execs : tk.execs[i] = tk.functionCalls[i]
            /\ Len(tk.toolOutputs) <= Len(tk.execs)
            /\ Len(tk.execs) <= Len(tk.toolOutputs) + 1
            /\ \A i \in DOMAIN tk.toolOutputs :
                   /\ tk.toolOutputs[i].functionResponse # Undefined
                   /\ tk.toolOutputs[i].functionResponse[1].name = tk.functionCalls[i].name
            /\ Len(tk.calls) <= 2
            /\ Len(tk.calls) = 2 =>
                   /\ tk.execs = tk.functionCalls
                   /\ Len(tk.toolOutputs) = Len(tk.functionCalls)
                   /\ tk.calls[2].contents =
                          << [role |-> "user", parts |-> <<TextPart(log[tk.doc].text)>>],
                             [role |-> "model", parts |-> PartsOf(FirstOf(t))],
                             [role |-> "function", parts |-> tk.toolOutputs] >>
            /\ tk.replyDoc # Undefined =>
                   /\ tk.secondResponse # Undefined
                   /\ Some(log[tk.replyDoc[1]].text) = ResponseText(tk.secondResponse[1])
            /\ FirstOf(t) = WithParts(<<TextPart("ok"), PayS1, CheckS1>>) =>
                   /\ tk.functionCalls = <<PayS1.functionCall[1], CheckS1.functionCall[1]>>
                   /\ Len(tk.requests) >= 1 =>
                          tk.requests[1] =
                              [method |-> "POST", url |-> "/tuition/pay",
                               body |-> Some([student_id |-> Some("S1"), amount |-> Some(50)])]
                   /\ Len(tk.requests) >= 2 =>
                          tk.requests[2] =
                              [method |-> "GET", url |-> "/tuition/S1", body |-> Undefined]

\* a handling with two function calls has appended the second response's text
C5_Witness ==
    \E t \in DOMAIN tasks :
        /\ tasks[t].firstResponse = Some(WithParts(<<TextPart("ok"), PayS1, CheckS1>>))
        /\ Len(tasks[t].requests) = 2
        /\ tasks[t].replyDoc # Undefined
        /\ log[tasks[t].replyDoc[1]].text = "You owe 100"

\* C6: when a backend request fails, executeTool returns the payload
\* {error: "API Call Failed: <message>"}; the handling goes on to the second
\* model request, which carries that payload as a tool result; the catch block
\* is not entered before the second request has been issued.
C6_BackendFailureContained ==
    \A t \in DOMAIN tasks :
        LET tk == tasks[t] IN
        /\ \A i \in DOMAIN tk.answers :
               (tk.answers[i] # Undefined /\ ~tk.answers[i][1].ok) =>
                   /\ tk.toolOutputs[i].functionResponse[1].response.result =
                          [data |-> Undefined,
                           error |-> Some("API Call Failed: " \o tk.answers[i][1].body)]
                   /\ tk.answers[i][1].body = "Network Error" =>
                          tk.toolOutputs[i].functionResponse[1].response.result.error =
                              Some("API Call Failed: Network Error")
                   /\ tk.pc = "awaitBackend" \/ Len(tk.calls) = 2
                   /\ Len(tk.calls) = 2 =>
                          tk.calls[2].contents[3].parts[i] = tk.toolOutputs[i]
        /\ (Len(tk.functionCalls) > 0 /\ tk.err) => Len(tk.calls) = 2

\* a backend request has failed and the handling has appended the reply of the
\* second model request
C6_Witness ==
    \E t \in DOMAIN tasks :
        /\ \E i \in DOMAIN tasks[t].answers :
               tasks[t].answers[i] # Undefined /\ ~tasks[t].answers[i][1].ok
        /\ Len(tasks[t].calls) = 2
        /\ tasks[t].replyDoc # Undefined

\* C7: for a tool name other than check_tuition and pay_tuition executeTool
\* returns {error: 'Unknown tool'} and sends no request to the backend.
C7_UnknownTool ==
    \A t \in DOMAIN tasks :
        LET tk == tasks[t]
            known == {i \in DOMAIN tk.execs :
                         tk.execs[i].name \in {"check_tuition", "pay_tuition"}}
        IN  /\ \A i \in DOMAIN tk.execs \ known :
                   /\ i <= Len(tk.toolOutputs)
                   /\ tk.toolOutputs[i].functionResponse[1].response.result =
                          [data |-> Undefined, error |-> Some("Unknown tool")]
                   /\ tk.answers[i] = Undefined
            /\ Len(tk.requests) <= Cardinality(known)

\* refund_tuition was requested and the second model request has been issued
C7_Witness ==
    \E t \in DOMAIN tasks :
        /\ Len(tasks[t].execs) > 0
        /\ tasks[t].execs[1].name = "refund_tuition"
        /\ Len(tasks[t].calls) = 2

\* the entries of the log that hold the fixed apology
ApologyDocs ==
    {d \in DOMAIN log :
        /\ log[d].role = "model"
        /\ log[d].text = "I'm sorry, I encountered an error processing your request."}

\* C8 as stated: a handling in which a step after the flag write has raised
\* ends with exactly one apology entry, without relatedToMessageId, and
\* without a normal reply.
C8_ApologyAlways ==
    \A t \in DOMAIN tasks :
        (tasks[t].err /\ Finished(t)) =>
            /\ tasks[t].apologyDoc # Undefined
            /\ tasks[t].apologyDoc[1] \in ApologyDocs
            /\ log[tasks[t].apologyDoc[1]].relatedToMessageId = Undefined
            /\ tasks[t].replyDoc = Undefined

\* C8 amended: when a step after the flag write raises (a model request or the
\* append of the reply fails, or the inspection of the response throws), no
\* normal reply is appended for that handling and the append of the fixed
\* apology, without relatedToMessageId, is issued once; the apology is in the
\* log exactly once when that append completes, and not at all when it fails
\* too (the task then ends with an unhandled rejection).
C8_Fallback ==
    /\ \A t \in DOMAIN tasks :
           LET tk == tasks[t] IN
           /\ tk.err =>
                  /\ tk.flagWritten
                  /\ tk.replyDoc = Undefined
                  /\ tk.pc \in {"awaitApology", "done", "rejected"}
                  /\ tk.pc = "done" <=> tk.apologyDoc # Undefined
           /\ tk.apologyDoc # Undefined =>
                  /\ tk.err
                  /\ tk.apologyDoc[1] \in ApologyDocs
                  /\ log[tk.apologyDoc[1]].relatedToMessageId = Undefined
           /\ \A u \in DOMAIN tasks :
                  (u # t /\ tk.apologyDoc # Undefined) => tasks[u].apologyDoc # tk.apologyDoc
    /\ ApologyDocs = {tasks[t].apologyDoc[1] : t \in {u \in DOMAIN tasks : tasks[u].apologyDoc # Undefined}}

\* the append of a reply has failed and the apology has been appended instead
C8_Witness ==
    \E t \in DOMAIN tasks :
        /\ tasks[t].err
        /\ TruthyText(tasks[t].finalResponseText)
        /\ tasks[t].pc = "done"
        /\ tasks[t].apologyDoc # Undefined
        /\ tasks[t].apologyDoc[1] \in ApologyDocs

\* C9 as stated: when the first response has no candidates, an empty candidate
\* list, or a candidate without content or parts, no model entry is appended
\* for the handling and the entry stays processed.
C9_MalformedNoReply ==
    \A t \in DOMAIN tasks :
        (/\ tasks[t].firstResponse # Undefined
         /\ FirstOf(t) \in {NoCandidates, EmptyCandidates, NoContent, NoParts}
         /\ Finished(t)) =>
            /\ tasks[t].replyDoc = Undefined
            /\ tasks[t].apologyDoc = Undefined
            /\ log[tasks[t].doc].processed = Some(TRUE)

\* C9 amended: when the first response has no candidates field, or its first
\* candidate has no content or no parts, no model entry is appended for the
\* handling and the entry stays processed; when the candidate list is empty,
\* reading candidates[0].content throws and the handling takes the catch
\* block: the apology is appended (when its append completes), no normal reply.
C9_Malformed ==
    \A t \in DOMAIN tasks :
        LET tk == tasks[t] IN
        tk.firstResponse # Undefined =>
            /\ FirstOf(t) \in {NoCandidates, NoContent, NoParts} =>
                   /\ tk.pc = "done" /\ ~tk.err
                   /\ tk.replyDoc = Undefined /\ tk.apologyDoc = Undefined
                   /\ Len(tk.calls) = 1 /\ tk.execs = <<>>
                   /\ log[tk.doc].processed = Some(TRUE)
            /\ FirstOf(t) = EmptyCandidates =>
                   /\ tk.err
                   /\ tk.replyDoc = Undefined
                   /\ Len(tk.calls) = 1 /\ tk.execs = <<>>
                   /\ tk.pc = "done" => (tk.apologyDoc # Undefined
                                          /\ tk.apologyDoc[1] \in ApologyDocs)
                   /\ log[tk.doc].processed = Some(TRUE)

\* a handling whose first response has no candidates is done, and the log
\* holds no model entry
C9_Witness ==
    \E t \in DOMAIN tasks :
        /\ tasks[t].firstResponse = Some(NoCandidates)
        /\ tasks[t].pc = "done"
        /\ \A d \in DOMAIN log : log[d].role = "user"

\* C10: a handling that has run to its end and whose orchestration failed (a
\* model request failed, or the first response was malformed) has appended the
\* fixed apology.
C10_UniformApology ==
    \A t \in DOMAIN tasks :
        (/\ tasks[t].pc = "done"
         /\ \/ tasks[t].err
            \/ tasks[t].firstResponse # Undefined /\ Inspect(FirstOf(t)) # "parts") =>
            /\ tasks[t].apologyDoc # Undefined
            /\ tasks[t].apologyDoc[1] \in ApologyDocs

\* C11: when the first response requests check_tuition without a student_id,
\* executeTool is not invoked and no request is sent to the backend for the
\* entry, and the model entry that results refers to the entry.
C11_NoToolWithoutStudentId ==
    \A t \in DOMAIN tasks :
        tasks[t].firstResponse = Some(WithParts(<<CheckNoId>>)) =>
            /\ tasks[t].execs = <<>>
            /\ tasks[t].requests = <<>>
            /\ tasks[t].replyDoc # Undefined =>
                   log[tasks[t].replyDoc[1]].relatedToMessageId = Some(tasks[t].doc)

\* C12: without the credential the process ends before the server listens and
\* before the listener is set up; the server listens and the listener is set
\* up only when the credential check has passed; no notification is delivered
\* and no handling starts before the listener is set up.
C12_FatalMisconfiguration ==
    /\ ~credential => proc \in {"boot", "exited"}
    /\ proc \in {"initialized", "listening", "subscribed"} => credential
    /\ proc # "subscribed" => (notifs = <<>> /\ tasks = <<>>)

\* the process has exited for want of the credential while the client has
\* written an entry
C12_Witness == ~credential /\ proc = "exited" /\ Len(log) > 0

---------------------------------------------------------------------------
(* The change delivered by a step, read off the two notification variables *)

\* the step hands a change to the listener callback
Delivers == (notifs # <<>> /\ notifs' = Tail(notifs)) \/ dups' # dups

DeliveredType == IF dups' # dups THEN "added" ELSE Head(notifs).type

DeliveredDoc == IF dups' # dups THEN dups'[Len(dups')] ELSE Head(notifs).doc

ModelDocs == {d \in DOMAIN log : log[d].role = "model"}

\* C14: a delivered change that is not of type 'added', or is for an entry of
\* role 'model', or is for an entry whose processed flag is true, starts no
\* handling and writes nothing to the log (so no model call and no tool
\* execution follow from it); every handling is of a user entry and the model
\* entries in the log are never more than the handlings started
C14_IgnoresOwnWrites ==
    /\ [](/\ Cardinality(ModelDocs) <= Len(tasks)
          /\ \A t \in DOMAIN tasks : log[tasks[t].doc].role = "user")
    /\ [][(/\ Delivers
           /\ \/ DeliveredType # "added"
              \/ log[DeliveredDoc].role = "model"
              \/ log[DeliveredDoc].processed = Some(TRUE))
          => (tasks' = tasks /\ log' = log)]_vars

\* the 'modified' change of the flag write and the 'added' change of the reply
\* have both been delivered, and the entry has still been handled once
C14_Witness ==
    /\ notifs = <<>>
    /\ NumUserDocs = 1
    /\ Len(tasks) = 1
    /\ tasks[1].replyDoc # Undefined
    /\ Cardinality(ModelDocs) = 1

\* C15: the log is append-only: a step never shortens it, and an entry that is
\* in the log either stays as it is or is a user entry that differs after the
\* step only in its processed flag, which is then true; so no text, role,
\* createdAt or relatedToMessageId changes, no model entry changes, and a true
\* flag never becomes false
C15_AppendOnly ==
    [][/\ Len(log') >= Len(log)
       /\ \A d \in DOMAIN log :
              \/ log'[d] = log[d]
              \/ /\ log[d].role = "user"
                 /\ log'[d] = [log[d] EXCEPT !.processed = Some(TRUE)]]_vars

\* a user entry has had its flag set and a model entry has been appended after
C15_Witness ==
    \E d, m \in DOMAIN log :
        /\ log[d].role = "user" /\ log[d].processed = Some(TRUE)
        /\ log[m].role = "model" /\ m > d

\* the first response of task t asks for at least one tool
AsksForTools(t) ==
    /\ tasks[t].firstResponse # Undefined
    /\ Inspect(FirstOf(t)) = "parts"
    /\ Len(FunctionCalls(PartsOf(FirstOf(t)))) > 0

\* C16: a handling makes at most two model requests; the second request has
\* been issued exactly when the first response asked for a tool and every one
\* of its calls has been executed; the executor has run nothing before the
\* first response, it waits for the backend only while one request has been
\* made, and from the second request on the executed calls are those of the
\* first response and no others, whatever the second response contains
C16_TwoCallStateMachine ==
    \A t \in DOMAIN tasks :
        LET tk == tasks[t] IN
        /\ Len(tk.calls) <= 2
        /\ Len(tk.calls) = 0 <=> (tk.pc = "awaitUpdate" \/ ~tk.flagWritten)
        /\ tk.pc = "awaitCall1" => (Len(tk.calls) = 1 /\ tk.firstResponse = Undefined)
        /\ tk.firstResponse = Undefined => (tk.execs = <<>> /\ tk.requests = <<>>)
        /\ tk.pc = "awaitBackend" =>
               /\ Len(tk.calls) = 1
               /\ AsksForTools(t)
               /\ Len(tk.execs) = Len(tk.toolOutputs) + 1
        /\ Len(tk.calls) = 2 <=> (AsksForTools(t) /\ tk.pc # "awaitBackend")
        /\ Len(tk.calls) = 2 =>
               /\ tk.execs = FunctionCalls(PartsOf(FirstOf(t)))
               /\ Len(tk.toolOutputs) = Len(tk.execs)
               /\ Len(tk.requests) <= Len(tk.execs)
        /\ tk.pc = "awaitCall2" => (Len(tk.calls) = 2 /\ tk.secondResponse = Undefined)
        /\ tk.secondResponse # Undefined => Len(tk.calls) = 2
        /\ (tk.firstResponse # Undefined /\ ~AsksForTools(t)) =>
               (tk.execs = <<>> /\ tk.secondResponse = Undefined)

\* a handling has ended after a second response that asks for a payment, with
\* only the one call of the first response executed
C16_Witness ==
    \E t \in DOMAIN tasks :
        /\ tasks[t].firstResponse = Some(WithParts(<<CheckS1>>))
        /\ tasks[t].secondResponse = Some(WithParts(<<PayS1>>))
        /\ tasks[t].pc = "done"
        /\ Len(tasks[t].execs) = 1

\* a handling of entry E has failed and ended
FailedAttempt(E) == \E t \in TasksOf(E) : tasks[t].err /\ Finished(t)

\* C17: no handling has appended both a reply and an apology, and once a
\* handling of an entry has failed no step starts another handling of that
\* entry, makes a further model request for it or appends a further model
\* entry on its behalf
C17_NoRetry ==
    [][/\ \A t \in DOMAIN tasks :
              tasks[t].replyDoc = Undefined \/ tasks[t].apologyDoc = Undefined
       /\ \A E \in UserDocs :
              FailedAttempt(E) =>
                  /\ \A t \in DOMAIN tasks' : tasks'[t].doc = E => t \in DOMAIN tasks
                  /\ \A t \in TasksOf(E) :
                         /\ tasks'[t].calls = tasks[t].calls
                         /\ tasks'[t].execs = tasks[t].execs
                         /\ tasks'[t].replyDoc = tasks[t].replyDoc
                         /\ tasks'[t].apologyDoc = tasks[t].apologyDoc]_vars

\* the payment writes sent to the backend by the handlings of entry E
PayWrites(E) ==
    {w \in UNION {{t} \X DOMAIN tasks[t].requests : t \in TasksOf(E)} :
        tasks[w[1]].requests[w[2]].method = "POST"}

\* the pay_tuition calls in the first response that task t received
PayCalls(t) ==
    {i \in DOMAIN tasks[t].functionCalls : tasks[t].functionCalls[i].name = "pay_tuition"}

\* C18: for every user entry, the payment writes sent to the backend by all
\* of its handlings together are no more than the pay_tuition calls of one
\* first response that a handling of the entry received
C18_PayAtMostOnce ==
    \A E \in UserDocs :
        PayWrites(E) # {} =>
            \E t \in TasksOf(E) : Cardinality(PayWrites(E)) <= Cardinality(PayCalls(t))

\* the response whose text a finished handling replies with
LastResponse(t) ==
    IF tasks[t].secondResponse # Undefined THEN tasks[t].secondResponse[1] ELSE FirstOf(t)

\* C19: every model entry with a back-reference refers to an entry of the log
\* that is a user entry with its processed flag true, and was appended by a
\* handling of that very entry: the handling sent the entry's own text to the
\* model and the reply's text is the text of the last response it received
C19_BackReference ==
    \A d \in DOMAIN log :
        (log[d].role = "model" /\ log[d].relatedToMessageId # Undefined) =>
            LET E == log[d].relatedToMessageId[1] IN
            /\ E \in DOMAIN log
            /\ E < d
            /\ log[E].role = "user"
            /\ log[E].processed = Some(TRUE)
            /\ \E t \in TasksOf(E) :
                   /\ tasks[t].replyDoc = Some(d)
                   /\ tasks[t].text = log[E].text
                   /\ \A i \in DOMAIN tasks[t].calls :
                          tasks[t].calls[i].contents[1] =
                              [role |-> "user", parts |-> <<TextPart(log[E].text)>>]
                   /\ Some(log[d].text) = ResponseText(LastResponse(t))

\* two entries with different texts were handled concurrently and the reply to
\* the later entry was appended before the reply to the earlier one
C19_Witness ==
    \E E1, E2 \in UserDocs :
        /\ E1 < E2
        /\ log[E1].text # log[E2].text
        /\ \E d1 \in RepliesTo(E1), d2 \in RepliesTo(E2) : d2 < d1

====
